---- MODULE Spec2Model ----
(***************************************************************************)
(* A model of test-by-a11y's Linux backend (src/src/linux.rs): the         *)
(* accessibility-tree snapshot builder (TreeNode::from_accessible_proxy),  *)
(* the node search (TreeNode::bfs) and the session operations connect,     *)
(* find, interact and get_text of TestByATSPI, run against a remote AT-SPI *)
(* object graph that the application under test may change between calls.  *)
(*                                                                         *)
(* Conventions.                                                            *)
(*  - A Rust String is a sequence of one-character strings, so that        *)
(*    to_lowercase and contains are computed and not assumed.              *)
(*  - Option<T> is a sequence of length 0 (None) or 1 (Some(x)).           *)
(*  - An AccessibleProxy is the pair (destination, path) it addresses.     *)
(*  - A Result is a record whose status is "Ok" or the name of the         *)
(*    TestByATSPIError variant returned.                                   *)
(***************************************************************************)
EXTENDS Integers, Sequences, FiniteSets, TLC

VARIABLES
    \* ---- the remote accessibility service (the AT-SPI bus) ----
    children,    \* object -> the object references GetChildren returns, in order
    count,       \* object -> the value of the ChildCount property
    name,        \* object -> Option<String>: None when the Name lookup fails
    accId,       \* object -> Option<String>: None when the AccessibleId lookup fails
    role,        \* object -> the value GetRole returns
    ifaces,      \* the objects whose GetInterfaces set contains Interface::Action
    actions,     \* object -> the actions GetActions returns, in order
    triggered,   \* the DoAction calls the remote objects have received, in order
    \* ---- the TestByATSPI session and its caller ----
    session,     \* Option<TestByATSPI>: the root_proxy of the connected session
    held,        \* the live node (Self::Node) the test holds in its variable, if any
    ret,         \* the value the last public call returned
    \* ---- the find call in progress ----
    pc,          \* "idle", or the place find has reached: expand, fold, search
    by,          \* the query of the find call
    stack,       \* from_accessible_proxy: AccessibleProxy yet to be processed
    nodes,       \* from_accessible_proxy: the processed TreeNodes
    fold_stack,  \* from_accessible_proxy: the fold stack
    tree,        \* Option<TreeNode>: the tree build_tree returned to find_impl
    found,       \* Option<TreeNode>: what tree.bfs(by) returned to find_impl
                 \* (both kept until the next public call, then dropped)
    overflow,    \* the build went beyond MaxNodes / MaxStack (model bound reached)
    \* ---- bookkeeping of the model ----
    changes      \* how many times the remote application has changed so far

vars == << children, count, name, accId, role, ifaces, actions, triggered,
           session, held, ret, pc, by, stack, nodes, fold_stack, tree, found,
           overflow, changes >>

remoteVars == << children, count, name, accId, role, ifaces, actions >>
buildVars == << stack, nodes, fold_stack, tree, found, overflow >>

-----------------------------------------------------------------------------
(* Strings and options *)

None == << >>
Some(x) == << x >>

\* The upper-case letters of the model's alphabet and their lower-case forms.
UpperToLower ==
    [c \in {"C", "L", "I", "K", "P", "R", "E", "S"} |->
        CASE c = "C" -> "c" [] c = "L" -> "l" [] c = "I" -> "i" [] c = "K" -> "k"
          [] c = "P" -> "p" [] c = "R" -> "r" [] c = "E" -> "e" [] c = "S" -> "s"]

\* str::to_lowercase
to_lowercase(s) ==
    [i \in 1..Len(s) |-> IF s[i] \in DOMAIN UpperToLower THEN UpperToLower[s[i]] ELSE s[i]]

\* str::contains(pat): pat occurs in s as a contiguous substring
contains(s, pat) ==
    \E i \in 1..(Len(s) - Len(pat) + 1) : SubSeq(s, i, i + Len(pat) - 1) = pat

S_click == << "c", "l", "i", "c", "k" >>
S_9 == << "9" >>
S_19 == << "1", "9" >>
S_calc == << "c", "a", "l", "c" >>

-----------------------------------------------------------------------------
(* Queries and snapshot nodes *)

Tag(s) == [kind |-> "Tag", arg |-> s]
Text(s) == [kind |-> "Text", arg |-> s]

\* struct TreeNode
TreeNode(d, p, id, n, r, cs) ==
    [destination |-> d, path |-> p, accessible_id |-> id, name |-> n,
     _role |-> r, children |-> cs]

\* Mutant of Matches: the query is compared with both fields, whatever its kind.
MatchesAnyField(self, q) ==
    \/ self.accessible_id # None /\ self.accessible_id[1] = q.arg
    \/ self.name # None /\ self.name[1] = q.arg

\* The match test at the head of TreeNode::bfs.
Matches(self, q) ==
    IF q.kind = "Tag"
    THEN IF self.accessible_id # None THEN self.accessible_id[1] = q.arg ELSE FALSE
    ELSE IF self.name # None THEN self.name[1] = q.arg ELSE FALSE

RECURSIVE bfs(_, _), bfsChildren(_, _, _), LevelOrderSearch(_, _)

\* The first match in breadth-first (level) order of the nodes queued.
LevelOrderSearch(queue, q) ==
    IF queue = << >> THEN None
    ELSE IF Matches(Head(queue), q) THEN Some(Head(queue))
    ELSE LevelOrderSearch(Tail(queue) \o Head(queue).children, q)

\* Mutant of bfs: a breadth-first search, as the name of the function suggests.
bfsLevelOrder(self, q) == LevelOrderSearch(<< self >>, q)

\* TreeNode::bfs: Option<TreeNode>
bfs(self, q) ==
    IF Matches(self, q) THEN Some(self) ELSE bfsChildren(self.children, 1, q)

\* The "for child in &self.children" loop of TreeNode::bfs, from child i on.
bfsChildren(cs, i, q) ==
    IF i > Len(cs) THEN None
    ELSE LET node == bfs(cs[i], q)
         IN  IF node # None THEN node ELSE bfsChildren(cs, i + 1, q)

-----------------------------------------------------------------------------
(* The remote objects *)

PROXY_DESTINATION == "org.a11y.atspi.Registry"
ROOT_PATH == "/org/a11y/atspi/accessible/root"

Ref(d, p) == [destination |-> d, path |-> p]

\* The accessibility root connect_impl opens.
RegistryRoot == Ref(PROXY_DESTINATION, ROOT_PATH)

AppDests == {":1.1", ":1.2"}
AppPaths == {ROOT_PATH, "/1", "/2"}
AppObj == {Ref(d, p) : d \in AppDests, p \in AppPaths}
Obj == {RegistryRoot} \cup AppObj

AppA == Ref(":1.1", ROOT_PATH)
A1 == Ref(":1.1", "/1")
A2 == Ref(":1.1", "/2")
AppB == Ref(":1.2", ROOT_PATH)
B1 == Ref(":1.2", "/1")
B2 == Ref(":1.2", "/2")

Roles == {"Application", "DesktopFrame", "PushButton"}
Strings == {S_9, S_19, S_calc}

\* The guard of from_accessible_proxy: a node reporting more children is skipped.
HugeChildCount == 65536

-----------------------------------------------------------------------------
(* Bounds of the model *)

\* from_accessible_proxy is followed for at most this many processed nodes and
\* this many stacked proxies; beyond, the two lists saturate and overflow is set.
MaxNodes == 8
MaxStack == 6

\* The remote objects receive at most this many DoAction calls.
MaxTriggered == 1

\* The remote application changes at most this many times.
MaxRemoteChanges == 1

-----------------------------------------------------------------------------
(* Results of the public calls *)

\* fail names the remote call whose failure ended the call ("none": no remote
\* call of it returned an error).
Result(op, arg, status, val, fail) ==
    [op |-> op, arg |-> arg, status |-> status, val |-> val, fail |-> fail]

NoCall == Result("none", << >>, "Ok", << >>, "none")

\* Which remote call of a step fails, if one does: a call and the index of the
\* proxy it is made on (0: the proxy the step is about, i: its i-th child).
FailPoint(call, idx) == [call |-> call, idx |-> idx]
NoFail == FailPoint("none", 0)

-----------------------------------------------------------------------------
(* TreeNode::from_accessible_proxy and TreeNode::get_node_details *)

Last(s) == s[Len(s)]
Front(s) == SubSeq(s, 1, Len(s) - 1)

\* The element stack.pop() returns, as a set (empty when the stack is).
Top(s) == IF s = << >> THEN {} ELSE {Last(s)}

\* The last n elements of s (all of s when it is shorter).
Suffix(s, n) == IF Len(s) <= n THEN s ELSE SubSeq(s, Len(s) - n + 1, Len(s))

\* get_node_details when get_role succeeds: a failed accessible_id or name
\* lookup is turned into None by .ok().
get_node_details(o) ==
    [destination |-> o.destination, path |-> o.path,
     accessible_id |-> accId[o], name |-> name[o], role |-> role[o]]

\* The childless TreeNode made from the details of a child.
Placeholder(o) ==
    LET details == get_node_details(o)
    IN  TreeNode(details.destination, details.path, details.accessible_id,
                 details.name, details.role, << >>)

\* The remote calls one iteration of the expansion loop makes on ap and that
\* return an error which `?` propagates (with trace logging on, also ap.name()).
ExpandFailPoints(ap) ==
    {NoFail, FailPoint("child_count", 0), FailPoint("get_children", 0),
     FailPoint("get_role", 0)}
      \cup {FailPoint("into_accessible_proxy", i) : i \in 1..Len(children[ap])}
      \cup {FailPoint("get_role", i) : i \in 1..Len(children[ap])}

\* Mutant of ExpandFails: a failed get_role on a child is dropped, as the
\* failed lookups of get_node_details are by .ok().
ExpandFailsUnlessChildRole(ap, f, trace) ==
    \/ f.call = "child_count"
    \/ /\ count[ap] <= HugeChildCount
       /\ \/ f.call \in {"get_children", "into_accessible_proxy"}
          \/ f.call = "get_role" /\ f.idx = 0
          \/ trace /\ name[ap] = None

\* Whether the iteration on ap returns Err, given the failing call and whether
\* the trace log line (which reads ap.name()) is evaluated.
ExpandFails(ap, f, trace) ==
    \/ f.call = "child_count"
    \/ /\ count[ap] <= HugeChildCount
       /\ \/ f.call \in {"get_children", "into_accessible_proxy", "get_role"}
          \/ trace /\ name[ap] = None

\* The TreeNode pushed on `nodes` for ap.
ExpandedNode(ap) ==
    LET details == get_node_details(ap)
    IN  TreeNode(details.destination, details.path, details.accessible_id,
                 details.name, details.role,
                 [i \in 1..Len(children[ap]) |-> Placeholder(children[ap][i])])

\* Mutant of FindStart: a snapshot built by an earlier call is searched again
\* instead of a new one being built.
FindStartReusingSnapshot(q) ==
    /\ pc = "idle"
    /\ session # None
    /\ by' = q
    /\ ret' = NoCall
    /\ found' = None
    /\ IF tree # None
       THEN pc' = "search" /\ UNCHANGED << stack, nodes, fold_stack, tree, overflow >>
       ELSE /\ pc' = "expand"
            /\ stack' = << session[1].root_proxy >>
            /\ nodes' = << >>
            /\ fold_stack' = << >>
            /\ tree' = None
            /\ overflow' = FALSE
    /\ UNCHANGED << remoteVars, triggered, session, held, changes >>

\* find_impl -> build_tree -> from_accessible_proxy(self.root_proxy.clone()):
\* the state before the first iteration.
FindStart(q) ==
    /\ pc = "idle"
    /\ session # None
    /\ pc' = "expand"
    /\ by' = q
    /\ stack' = << session[1].root_proxy >>
    /\ nodes' = << >>
    /\ fold_stack' = << >>
    /\ tree' = None
    /\ found' = None
    /\ overflow' = FALSE
    /\ ret' = NoCall
    /\ UNCHANGED << remoteVars, triggered, session, held, changes >>

\* find returns the error of a failed build.
FindFails(status, fail) ==
    /\ pc' = "idle"
    /\ ret' = Result("find", Some(by), status, None, fail)
    /\ stack' = << >>
    /\ nodes' = << >>
    /\ fold_stack' = << >>
    /\ UNCHANGED << tree, found, overflow >>

\* One iteration of "while let Some(ap) = stack.pop()".
ExpandStep(ap, f, trace) ==
    /\ pc = "expand"
    /\ stack # << >>
    /\ ap = Last(stack)
    /\ LET rest == Front(stack)
       IN  /\ f \in ExpandFailPoints(ap)
           /\ IF ExpandFails(ap, f, trace)
              THEN FindFails("Atspi", IF f = NoFail THEN "name" ELSE f.call)
              ELSE IF count[ap] > HugeChildCount
              THEN /\ stack' = rest
                   /\ pc' = IF rest = << >> THEN "fold" ELSE "expand"
                   /\ UNCHANGED << nodes, fold_stack, tree, found, overflow, ret >>
              ELSE LET pushed == rest \o children[ap]
                       added == Append(nodes, ExpandedNode(ap))
                   IN  /\ stack' = Suffix(pushed, MaxStack)
                       /\ nodes' = IF Len(nodes) < MaxNodes THEN added ELSE nodes
                       /\ overflow' = (overflow \/ Len(pushed) > MaxStack
                                                \/ Len(nodes) >= MaxNodes)
                       /\ pc' = IF pushed = << >> THEN "fold" ELSE "expand"
                       /\ UNCHANGED << fold_stack, tree, found, ret >>
    /\ UNCHANGED << remoteVars, triggered, session, held, by, changes >>

\* Mutant of FoldOne: the children are taken from the bottom of the fold stack.
FoldOneFromBottom(node, fs) ==
    IF node.children = << >>
    THEN Append(fs, node)
    ELSE LET n == IF Len(fs) >= Len(node.children) THEN Len(node.children)
                  ELSE Len(fs)
         IN  Append(SubSeq(fs, n + 1, Len(fs)),
                    [node EXCEPT !.children = SubSeq(fs, 1, n)])

\* Mutant of FoldOne: the split point is one entry too high, so one child
\* of the node stays on the fold stack.
FoldOneOffByOne(node, fs) ==
    IF node.children = << >>
    THEN Append(fs, node)
    ELSE LET begin == IF Len(fs) >= Len(node.children)
                      THEN Len(fs) - Len(node.children) + 1 ELSE 0
         IN  Append(SubSeq(fs, 1, begin),
                    [node EXCEPT !.children = SubSeq(fs, begin + 1, Len(fs))])

\* The body of "while let Some(mut node) = nodes.pop()": the fold stack after
\* node has been popped from `nodes` and folded.
FoldOne(node, fs) ==
    IF node.children = << >>
    THEN Append(fs, node)
    ELSE LET begin == IF Len(fs) >= Len(node.children)
                      THEN Len(fs) - Len(node.children) ELSE 0
         IN  Append(SubSeq(fs, 1, begin),
                    [node EXCEPT !.children = SubSeq(fs, begin + 1, Len(fs))])

\* One iteration of "while let Some(mut node) = nodes.pop()".
FoldStep ==
    /\ pc = "fold"
    /\ nodes # << >>
    /\ nodes' = Front(nodes)
    /\ fold_stack' = FoldOne(Last(nodes), fold_stack)
    /\ UNCHANGED << remoteVars, triggered, session, held, ret, pc, by, stack,
                    tree, found, overflow, changes >>

\* fold_stack.pop().ok_or("No root node built"), and the `?` of find_impl on it.
\* A build that went beyond the model's bounds is not followed further.
BuildReturn ==
    /\ pc = "fold"
    /\ nodes = << >>
    /\ IF overflow
       THEN FindFails("BeyondModelBounds", "none")
       ELSE IF fold_stack = << >>
       THEN FindFails("Atspi", "none")
       ELSE /\ tree' = Some(Last(fold_stack))
            /\ fold_stack' = Front(fold_stack)
            /\ pc' = "search"
            /\ UNCHANGED << ret, stack, nodes, found, overflow >>
    /\ UNCHANGED << remoteVars, triggered, session, held, by, changes >>

\* Mutant of NewProxy: the proxy is opened at PROXY_DESTINATION, as the proxy
\* of the accessibility root is in connect_impl.
NewProxyAtRegistry(node) == Ref(PROXY_DESTINATION, node.path)

\* The AccessibleProxy find_impl builds for the node found: it addresses the
\* destination and path stored in the snapshot node.
NewProxy(node) == Ref(node.destination, node.path)

\* Mutant of FindResult: a search without a match is reported as an error.
FindResultNoMatchIsError(q, node, built) ==
    IF node # None /\ built
    THEN Result("find", Some(q), "Ok", Some(NewProxy(node[1])), "none")
    ELSE Result("find", Some(q), "Zbus", None, "build")

\* What find_impl returns once tree.bfs(by) has returned node.
\* built: whether building the new proxy succeeds.
FindResult(q, node, built) ==
    IF node = None THEN Result("find", Some(q), "Ok", None, "none")
    ELSE IF built
    THEN Result("find", Some(q), "Ok", Some(NewProxy(node[1])), "none")
    ELSE Result("find", Some(q), "Zbus", None, "build")

\* The rest of find_impl: tree.bfs(by), and a new proxy for the node found.
Search(built) ==
    /\ pc = "search"
    /\ LET node == bfs(tree[1], by)
       IN  /\ found' = node
           /\ ret' = FindResult(by, node, built)
    /\ pc' = "idle"
    /\ UNCHANGED << remoteVars, triggered, session, held, by, stack, nodes,
                    fold_stack, tree, overflow, changes >>

-----------------------------------------------------------------------------
(* TestByATSPI::connect *)

\* The remote calls of connect_impl whose error `?` propagates.
ConnectFailPoints ==
    {NoFail, FailPoint("AccessibilityConnection::new", 0), FailPoint("get_children", 0)}
      \cup {FailPoint("into_accessible_proxy", i) : i \in 1..Len(children[RegistryRoot])}
      \cup {FailPoint("get_role", i) : i \in 1..Len(children[RegistryRoot])}

RECURSIVE PotentialMatches(_, _, _), PotentialMatchesAnyRole(_, _, _)

\* Mutant of PotentialMatches: the role of the child is not looked at.
PotentialMatchesAnyRole(cs, i, app_name) ==
    IF i > Len(cs) THEN << >>
    ELSE IF name[cs[i]] = Some(app_name)
         THEN << cs[i] >> \o PotentialMatchesAnyRole(cs, i + 1, app_name)
         ELSE PotentialMatchesAnyRole(cs, i + 1, app_name)

\* The "for child in proxy.get_children()" loop of connect_impl from child i on:
\* the proxies pushed on potential_matches, in order.
PotentialMatches(cs, i, app_name) ==
    IF i > Len(cs) THEN << >>
    ELSE IF role[cs[i]] = "Application" /\ name[cs[i]] = Some(app_name)
         THEN << cs[i] >> \o PotentialMatches(cs, i + 1, app_name)
         ELSE PotentialMatches(cs, i + 1, app_name)

\* ap.name().await? fails for some child that has the application role.
ConnectNameFails ==
    \E i \in 1..Len(children[RegistryRoot]) :
        /\ role[children[RegistryRoot][i]] = "Application"
        /\ name[children[RegistryRoot][i]] = None

\* TestByATSPI::connect(app_name)
Connect(app_name, f) ==
    /\ pc = "idle"
    /\ session = None
    /\ f \in ConnectFailPoints
    /\ LET potential_matches == PotentialMatches(children[RegistryRoot], 1, app_name)
       IN  IF f.call = "AccessibilityConnection::new"
           THEN /\ ret' = Result("connect", Some(app_name), "Atspi", None, f.call)
                /\ session' = None
           ELSE IF f # NoFail \/ ConnectNameFails
           THEN /\ ret' = Result("connect", Some(app_name), "Zbus", None,
                                 IF f = NoFail THEN "name" ELSE f.call)
                /\ session' = None
           ELSE IF potential_matches = << >>
           THEN /\ ret' = Result("connect", Some(app_name), "CannotFindApplication",
                                 None, "none")
                /\ session' = None
           ELSE IF Len(potential_matches) > 1
           THEN /\ ret' = Result("connect", Some(app_name), "CannotFindApplication",
                                 None, "none")
                /\ session' = None
           ELSE /\ ret' = Result("connect", Some(app_name), "Ok", None, "none")
                /\ session' = Some([root_proxy |->
                                      Ref(potential_matches[1].destination,
                                          potential_matches[1].path)])
    /\ UNCHANGED << remoteVars, triggered, held, pc, by, buildVars, changes >>

-----------------------------------------------------------------------------
(* TestByATSPI::interact and TestByATSPI::get_text *)

\* The test binds the node the last find returned to its variable
\* (let btn = test.find(..).unwrap().unwrap()), in place of the one it held.
Keep ==
    /\ pc = "idle"
    /\ ret.op = "find" /\ ret.status = "Ok" /\ ret.val # None
    /\ held # {ret.val[1]}
    /\ held' = {ret.val[1]}
    /\ UNCHANGED << remoteVars, triggered, session, ret, pc, by, buildVars, changes >>

\* The condition of the loop of interact_impl on one action.
IsClick(action) ==
    \/ contains(to_lowercase(action.name), S_click)
    \/ contains(to_lowercase(action.description), S_click)

RECURSIVE FirstClick(_, _), LastClick(_, _)

\* Mutant of FirstClick: the loop goes on after a qualifying action, so the
\* last one wins.
LastClick(acts, i) ==
    IF i > Len(acts) THEN None
    ELSE LET later == LastClick(acts, i + 1)
         IN  IF later # None THEN later
             ELSE IF IsClick(acts[i]) THEN Some(i - 1) ELSE None

\* The "for (idx, action) in actions.iter().enumerate()" loop from position i
\* (1-based) on: Some(idx) of the action do_action is called with, else None.
FirstClick(acts, i) ==
    IF i > Len(acts) THEN None
    ELSE IF IsClick(acts[i]) THEN Some(i - 1)
    ELSE FirstClick(acts, i + 1)

\* Mutant of SupportsAction: the capability set is not looked at.
SupportsActionUnchecked(node, f) == TRUE

\* interfaces.contains(Interface::Action), where a failed get_interfaces is
\* replaced by the default (empty) set: unwrap_or_default.
SupportsAction(node, f) ==
    LET interfaces == IF f.call = "get_interfaces" THEN {}
                      ELSE IF node \in ifaces THEN {"Action"} ELSE {}
    IN  "Action" \in interfaces

InteractFailPoints ==
    {NoFail, FailPoint("get_interfaces", 0), FailPoint("ActionProxy::build", 0),
     FailPoint("get_actions", 0), FailPoint("do_action", 0)}

\* TestByATSPI::interact(node, Interaction::Click).
\* debug: the debug log line, which reads node.name(), is evaluated.
\* delivered: a do_action call that returns an error reached the object.
Interact(node, f, debug, delivered) ==
    /\ pc = "idle"
    /\ session # None
    /\ node \in held
    /\ f \in InteractFailPoints
    /\ Len(triggered) < MaxTriggered
    /\ LET idx == FirstClick(actions[node], 1)
           R(status, fail) == Result("interact", Some(node), status, None, fail)
       IN  IF debug /\ name[node] = None
           THEN ret' = R("Zbus", "name") /\ triggered' = triggered
           ELSE IF ~SupportsAction(node, f)
           THEN /\ ret' = R("CannotPerformInteractionOnTarget",
                            IF f.call = "get_interfaces" THEN f.call ELSE "none")
                /\ triggered' = triggered
           ELSE IF f.call \in {"ActionProxy::build", "get_actions"}
           THEN ret' = R("Zbus", f.call) /\ triggered' = triggered
           ELSE IF idx = None
           THEN ret' = R("CannotFindAction", "none") /\ triggered' = triggered
           ELSE IF f.call = "do_action"
           THEN /\ ret' = R("Zbus", f.call)
                /\ triggered' = IF delivered
                                THEN Append(triggered, [obj |-> node, index |-> idx[1]])
                                ELSE triggered
           ELSE /\ ret' = R("Ok", "none")
                /\ triggered' = Append(triggered, [obj |-> node, index |-> idx[1]])
    /\ tree' = None
    /\ found' = None
    /\ UNCHANGED << remoteVars, session, held, pc, by, stack, nodes, fold_stack,
                    overflow, changes >>

\* Mutant of GetText: the name recorded in the snapshot node the search
\* returned is answered when that node addresses the same object.
GetTextFromSnapshot(node) ==
    /\ pc = "idle"
    /\ session # None
    /\ node \in held
    /\ LET recorded == IF found # None /\ NewProxy(found[1]) = node
                       THEN found[1].name ELSE name[node]
       IN  ret' = IF recorded = None
                  THEN Result("get_text", Some(node), "Zbus", None, "name")
                  ELSE Result("get_text", Some(node), "Ok", recorded, "none")
    /\ tree' = None
    /\ found' = None
    /\ UNCHANGED << remoteVars, triggered, session, held, pc, by, stack, nodes,
                    fold_stack, overflow, changes >>

\* TestByATSPI::get_text(node)
GetText(node) ==
    /\ pc = "idle"
    /\ session # None
    /\ node \in held
    /\ ret' = IF name[node] = None
              THEN Result("get_text", Some(node), "Zbus", None, "name")
              ELSE Result("get_text", Some(node), "Ok", name[node], "none")
    /\ tree' = None
    /\ found' = None
    /\ UNCHANGED << remoteVars, triggered, session, held, pc, by, stack, nodes,
                    fold_stack, overflow, changes >>

-----------------------------------------------------------------------------
(* The application under test changes what it exposes, between two calls *)

Action(n, d) == [name |-> n, description |-> d]

\* An object of the application starts or stops answering the Name lookup, or
\* answers it with another name.
RemoteSetName(o, n) ==
    /\ pc = "idle"
    /\ changes < MaxRemoteChanges
    /\ name[o] # n
    /\ name' = [name EXCEPT ![o] = n]
    /\ changes' = changes + 1
    /\ UNCHANGED << children, count, accId, role, ifaces, actions, triggered,
                    session, held, ret, pc, by, buildVars >>

\* An object gets another list of children (ChildCount follows).
RemoteSetChildren(o, cs) ==
    /\ pc = "idle"
    /\ changes < MaxRemoteChanges
    /\ children[o] # cs
    /\ children' = [children EXCEPT ![o] = cs]
    /\ count' = [count EXCEPT ![o] = Len(cs)]
    /\ changes' = changes + 1
    /\ UNCHANGED << name, accId, role, ifaces, actions, triggered,
                    session, held, ret, pc, by, buildVars >>

\* An object reports a child count beyond the guard of the builder.
RemoteSetHuge(o) ==
    /\ pc = "idle"
    /\ changes < MaxRemoteChanges
    /\ count[o] <= HugeChildCount
    /\ count' = [count EXCEPT ![o] = HugeChildCount + 1]
    /\ changes' = changes + 1
    /\ UNCHANGED << children, name, accId, role, ifaces, actions, triggered,
                    session, held, ret, pc, by, buildVars >>

-----------------------------------------------------------------------------
(* The session specification: one test, one application, a changing remote *)

\* The objects of the application whose child list may change (Changeable)
\* and whose name may change (Renameable), and the child lists and names the
\* application may switch to.
Changeable == {AppA, A1}
Renameable == {A1, A2}
ChildLists == {<< >>, << AppA >>, << A1 >>, << A2 >>, << A1, A2 >>, << A2, A1 >>}
NameChoices == {None, Some(S_9), Some(S_19)}
Queries == {Tag(S_9), Text(S_9), Text(S_19)}

InitSession ==
    /\ session = None
    /\ held = {}
    /\ ret = NoCall
    /\ pc = "idle"
    /\ by = Text(S_9)
    /\ stack = << >>
    /\ nodes = << >>
    /\ fold_stack = << >>
    /\ tree = None
    /\ found = None
    /\ overflow = FALSE
    /\ triggered = << >>
    /\ changes = 0

\* A desktop with two applications; the test is written for AppA ("calc"),
\* which shows a button named "9" (A1) and a display with an empty name (A2).
BaseRemote ==
    /\ children = [o \in Obj |->
                     IF o = RegistryRoot THEN << AppA, AppB >>
                     ELSE IF o = AppA THEN << A1, A2 >>
                     ELSE IF o = AppB THEN << B1 >>
                     ELSE << >>]
    /\ count = [o \in Obj |->
                  IF o = RegistryRoot \/ o = AppA THEN 2 ELSE IF o = AppB THEN 1 ELSE 0]
    /\ name = [o \in Obj |->
                 IF o = AppA THEN Some(S_calc)
                 ELSE IF o \in {A1, B1} THEN Some(S_9)
                 ELSE IF o = AppB THEN Some(S_19)
                 ELSE IF o = A2 THEN Some(<< >>)
                 ELSE None]
    /\ accId = [o \in Obj |-> IF o = A2 THEN Some(S_9) ELSE None]
    /\ role = [o \in Obj |->
                 IF o = RegistryRoot THEN "DesktopFrame"
                 ELSE IF o \in {AppA, AppB} THEN "Application"
                 ELSE "PushButton"]
    /\ ifaces = {A1, A2}
    /\ actions = [o \in Obj |->
                    IF o = A1 THEN << Action(<< "C", "l", "i", "c", "k" >>, << >>) >>
                    ELSE IF o = A2 THEN << Action(<< "p", "r", "e", "s", "s" >>, << >>) >>
                    ELSE << >>]

Init == BaseRemote /\ InitSession

Next ==
    \/ \E a \in {S_calc, S_9}, f \in ConnectFailPoints : Connect(a, f)
    \/ \E q \in Queries : FindStart(q)
    \/ \E ap \in Top(stack) : \E f \in ExpandFailPoints(ap), trace \in BOOLEAN :
          ExpandStep(ap, f, trace)
    \/ FoldStep
    \/ BuildReturn
    \/ \E built \in BOOLEAN : Search(built)
    \/ Keep
    \/ \E h \in held, f \in InteractFailPoints, debug \in BOOLEAN, delivered \in BOOLEAN :
          Interact(h, f, debug, delivered)
    \/ \E h \in held : GetText(h)
    \/ \E o \in Renameable, n \in NameChoices : RemoteSetName(o, n)
    \/ \E o \in Changeable, cs \in ChildLists : RemoteSetChildren(o, cs)
    \/ \E o \in Changeable : RemoteSetHuge(o)

Spec == Init /\ [][Next]_vars

-----------------------------------------------------------------------------
(* The search specification: TreeNode::bfs on every small snapshot *)

\* The snapshots have at most this many nodes.
MaxTreeNodes == 4

\* The (accessible_id, name) pairs of the nodes of the snapshots.
SearchLabels == {<< None, None >>, << None, Some(S_9) >>, << Some(S_9), None >>,
                 << Some(S_9), Some(S_19) >>}
SearchQueries == {Tag(S_9), Text(S_9), Text(S_19)}

RECURSIVE TreesOfSize(_), ForestsOfSize(_)

\* The snapshots with exactly n nodes, and the child lists with n nodes in all.
TreesOfSize(n) ==
    IF n = 0 THEN {}
    ELSE {TreeNode(":1.1", "/1", l[1], l[2], "PushButton", cs) :
            l \in SearchLabels, cs \in ForestsOfSize(n - 1)}

ForestsOfSize(n) ==
    IF n = 0 THEN {<< >>}
    ELSE UNION {{<< t >> \o f : t \in TreesOfSize(k), f \in ForestsOfSize(n - k)} :
                  k \in 1..n}

BoundedTrees == UNION {TreesOfSize(n) : n \in 1..MaxTreeNodes}

\* find_impl holds a built tree and is about to search it.
InitSearch ==
    /\ BaseRemote
    /\ session = Some([root_proxy |-> AppA])
    /\ held = {}
    /\ ret = NoCall
    /\ pc = "search"
    /\ by \in SearchQueries
    /\ stack = << >>
    /\ nodes = << >>
    /\ fold_stack = << >>
    /\ tree \in {Some(t) : t \in BoundedTrees}
    /\ found = None
    /\ overflow = FALSE
    /\ triggered = << >>
    /\ changes = 0

NextSearch == \E built \in BOOLEAN : Search(built)

SpecSearch == InitSearch /\ [][NextSearch]_vars

-----------------------------------------------------------------------------
(* Properties of the search *)

RECURSIVE PreOrder(_), PreOrderOfList(_, _), NodesOf(_)

\* The nodes of a snapshot in depth-first pre-order: a node, then the
\* subtrees of its children in stored order.
PreOrder(t) == << t >> \o PreOrderOfList(t.children, 1)

PreOrderOfList(cs, i) ==
    IF i > Len(cs) THEN << >> ELSE PreOrder(cs[i]) \o PreOrderOfList(cs, i + 1)

\* The set of the nodes of a snapshot.
NodesOf(t) == {t} \cup UNION {NodesOf(t.children[i]) : i \in 1..Len(t.children)}

\* The query is answered by the node: its payload equals the field it names.
Answers(n, q) ==
    IF q.kind = "Tag" THEN n.accessible_id = Some(q.arg) ELSE n.name = Some(q.arg)

\* find_impl has searched the tree it built.
Searched == pc = "idle" /\ ret.op = "find" /\ tree # None

\* C3: for a snapshot and a query, search returns the first matching node in
\* depth-first pre-order: every node before it in that order does not match,
\* and it returns nothing only when no node of that order matches.
C3_PreOrderFirstMatch ==
    Searched =>
        LET order == PreOrder(tree[1])
        IN  IF found = None
            THEN \A i \in 1..Len(order) : ~Matches(order[i], by)
            ELSE \E i \in 1..Len(order) :
                    /\ order[i] = found[1]
                    /\ Matches(order[i], by)
                    /\ \A j \in 1..(i - 1) : ~Matches(order[j], by)

\* A deeper node is returned although a shallower node, later in pre-order,
\* matches as well.
C3_Witness ==
    /\ Searched
    /\ found # None
    /\ LevelOrderSearch(tree, by) # found

C5_TextMatchesPartially ==
    (Searched /\ by.kind = "Text") =>
        ((\E n \in NodesOf(tree[1]) : n.name # None /\ contains(n.name[1], by.arg))
            => found # None)

-----------------------------------------------------------------------------
(* The connect specification: connect on every small desktop *)

\* The accessibility root has at most this many children.
MaxApps == 3

S_press == << "p", "r", "e", "s", "s" >>
S_Click == << "C", "l", "i", "c", "k" >>
S_CLICK_it == << "C", "L", "I", "C", "K", " ", "i", "t" >>

RECURSIVE SeqsUpTo(_, _)

\* The sequences of at most n elements of S.
SeqsUpTo(S, n) ==
    IF n = 0 THEN {<< >>}
    ELSE LET shorter == SeqsUpTo(S, n - 1)
         IN  shorter \cup {Append(s, x) : s \in {r \in shorter : Len(r) = n - 1}, x \in S}

\* The objects the accessibility root may list, and what they may report.
TopLevel == {AppA, AppB, B1}
TopLevelRoles == {"Application", "PushButton"}
TopLevelNames == {None, Some(S_calc), Some(S_9)}
AppNames == {S_calc}

\* The elements of a sequence.
Range(s) == {s[i] : i \in 1..Len(s)}

\* Only what the listed children report is varied: connect reads nothing else.
InitConnect ==
    /\ \E cs \in SeqsUpTo(TopLevel, MaxApps) :
          /\ children = [o \in Obj |-> IF o = RegistryRoot THEN cs ELSE << >>]
          /\ count = [o \in Obj |-> IF o = RegistryRoot THEN Len(cs) ELSE 0]
          /\ \E r \in [Range(cs) -> TopLevelRoles] :
                role = [o \in Obj |-> IF o \in Range(cs) THEN r[o] ELSE "PushButton"]
          /\ \E n \in [Range(cs) -> TopLevelNames] :
                name = [o \in Obj |-> IF o \in Range(cs) THEN n[o] ELSE None]
    /\ accId = [o \in Obj |-> None]
    /\ ifaces = {}
    /\ actions = [o \in Obj |-> << >>]
    /\ InitSession

NextConnect == \E a \in AppNames, f \in ConnectFailPoints : Connect(a, f)

SpecConnect == InitConnect /\ [][NextConnect]_vars

\* The children of the accessibility root, by position, that have the
\* application role and the name asked for.
AppsNamed(app_name) ==
    {i \in 1..Len(children[RegistryRoot]) :
        /\ role[children[RegistryRoot][i]] = "Application"
        /\ name[children[RegistryRoot][i]] = Some(app_name)}

\* C2: when every remote call succeeds, connect(app_identifier) succeeds if
\* exactly one direct child of the accessibility root has the application role
\* and the name app_identifier (and the session is rooted at that child), and
\* fails with CannotFindApplication if there are none or at least two; a child
\* with another role does not count.
C2_ConnectNeedsExactlyOneApplication ==
    (ret.op = "connect" /\ ret.fail = "none") =>
        LET apps == AppsNamed(ret.arg[1])
        IN  IF Cardinality(apps) = 1
            THEN /\ ret.status = "Ok"
                 /\ \E i \in apps : session = Some([root_proxy |-> children[RegistryRoot][i]])
            ELSE /\ ret.status = "CannotFindApplication"
                 /\ session = None

\* connect fails on a desktop where two applications have the name asked for
\* and a third child has it too, under another role.
C2_Witness ==
    /\ ret.op = "connect" /\ ret.fail = "none"
    /\ ret.status = "CannotFindApplication"
    /\ Cardinality(AppsNamed(ret.arg[1])) = 2
    /\ \E i \in 1..Len(children[RegistryRoot]) :
          /\ role[children[RegistryRoot][i]] # "Application"
          /\ name[children[RegistryRoot][i]] = Some(ret.arg[1])

-----------------------------------------------------------------------------
(* The interaction specification: a click on every small list of actions *)

\* An object has at most this many actions.
MaxActions == 3

ActionChoices == {Action(n, d) : n \in {S_press, S_Click}, d \in {<< >>, S_CLICK_it}}

\* The test holds the live node A1, found earlier.
InitInteract ==
    /\ children = [o \in Obj |-> IF o = AppA THEN << A1 >> ELSE << >>]
    /\ count = [o \in Obj |-> IF o = AppA THEN 1 ELSE 0]
    /\ role = [o \in Obj |-> IF o = AppA THEN "Application" ELSE "PushButton"]
    /\ \E n \in {None, Some(S_9)} : name = [o \in Obj |-> IF o = A1 THEN n ELSE None]
    /\ accId = [o \in Obj |-> None]
    /\ ifaces \in {{}, {A1}}
    /\ \E acts \in SeqsUpTo(ActionChoices, MaxActions) :
          actions = [o \in Obj |-> IF o = A1 THEN acts ELSE << >>]
    /\ session = Some([root_proxy |-> AppA])
    /\ held = {A1}
    /\ ret = NoCall
    /\ pc = "idle"
    /\ by = Text(S_9)
    /\ stack = << >>
    /\ nodes = << >>
    /\ fold_stack = << >>
    /\ tree = None
    /\ found = None
    /\ overflow = FALSE
    /\ triggered = << >>
    /\ changes = 0

NextInteract ==
    \E h \in held, f \in InteractFailPoints, debug \in BOOLEAN, delivered \in BOOLEAN :
        Interact(h, f, debug, delivered)

SpecInteract == InitInteract /\ [][NextInteract]_vars

\* The two letters are the same up to case.
SameLetter(a, b) ==
    \/ a = b
    \/ a \in DOMAIN UpperToLower /\ UpperToLower[a] = b
    \/ b \in DOMAIN UpperToLower /\ UpperToLower[b] = a

\* s contains "click", whatever the case of its letters.
MentionsClick(s) ==
    \E k \in 0..(Len(s) - Len(S_click)) :
        \A j \in 1..Len(S_click) : SameLetter(s[k + j], S_click[j])

\* The positions (0-based) of the actions whose name or description does.
ClickIndices(acts) ==
    {i - 1 : i \in {j \in 1..Len(acts) :
                      MentionsClick(acts[j].name) \/ MentionsClick(acts[j].description)}}

Least(S) == CHOOSE x \in S : \A y \in S : x <= y

\* C7: a click on a node that advertises the action capability (every remote
\* call succeeding) triggers exactly one remote action, on that node, at the
\* smallest index whose name or description contains "click" whatever the
\* case, and if no action qualifies it triggers none and fails with
\* CannotFindAction.
C7_ClickTriggersFirstQualifyingAction ==
    [][(ret'.op = "interact" /\ ret'.fail = "none" /\ ret'.arg[1] \in ifaces) =>
          LET node == ret'.arg[1]
              qualifying == ClickIndices(actions[node])
          IN  IF qualifying = {}
              THEN ret'.status = "CannotFindAction" /\ triggered' = triggered
              ELSE /\ ret'.status = "Ok"
                   /\ triggered' = Append(triggered,
                                          [obj |-> node, index |-> Least(qualifying)])
      ]_vars

\* The action triggered is the second of three, the first does not qualify and
\* the third does too.
C7_Witness ==
    /\ ret.op = "interact" /\ ret.status = "Ok"
    /\ triggered = << [obj |-> ret.arg[1], index |-> 1] >>
    /\ ClickIndices(actions[ret.arg[1]]) = {1, 2}

\* C8: a click on a live node that does not advertise the action capability
\* (every remote call succeeding) fails with CannotPerformInteractionOnTarget,
\* and a call that returns CannotPerformInteractionOnTarget or CannotFindAction
\* has triggered no action on any remote object.
C8_NoActionWithoutCapabilityOrMatch ==
    [][/\ (ret'.op = "interact" /\ ret'.fail = "none" /\ ret'.arg[1] \notin ifaces)
            => ret'.status = "CannotPerformInteractionOnTarget"
       /\ (ret'.op = "interact"
             /\ ret'.status \in {"CannotPerformInteractionOnTarget", "CannotFindAction"})
            => triggered' = triggered
      ]_vars

\* The click was refused on a node without the capability although one of its
\* actions qualifies.
C8_Witness ==
    /\ ret.op = "interact" /\ ret.fail = "none"
    /\ ret.status = "CannotPerformInteractionOnTarget"
    /\ ret.arg[1] \notin ifaces
    /\ ClickIndices(actions[ret.arg[1]]) # {}
    /\ triggered = << >>

-----------------------------------------------------------------------------
(* The snapshot and the result a find call gets from the remote as it is *)

RECURSIVE RunExpand(_, _), RunFold(_, _)

\* The expansion loop run to its end from a work stack and a list of
\* processed nodes, every remote call succeeding.
RunExpand(stk, nds) ==
    IF stk = << >> THEN nds
    ELSE IF count[Last(stk)] > HugeChildCount THEN RunExpand(Front(stk), nds)
    ELSE RunExpand(Front(stk) \o children[Last(stk)],
                   Append(nds, ExpandedNode(Last(stk))))

\* The folding loop run to its end.
RunFold(nds, fs) ==
    IF nds = << >> THEN fs ELSE RunFold(Front(nds), FoldOne(Last(nds), fs))

\* from_accessible_proxy(root): Some(tree), or None for "No root node built".
FreshSnapshot(root) ==
    LET fs == RunFold(RunExpand(<< root >>, << >>), << >>)
    IN  IF fs = << >> THEN None ELSE Some(Last(fs))

\* What find(q) returns on a session rooted at root, every remote call
\* succeeding, from the remote objects as they are now.
FreshFind(q, root) ==
    LET snapshot == FreshSnapshot(root)
    IN  IF snapshot = None THEN Result("find", Some(q), "Atspi", None, "none")
        ELSE FindResult(q, bfs(snapshot[1], q), TRUE)

\* The specification with the scheduling of a blocking call: find is driven
\* by block_on until it returns, so an iteration that can be taken is taken.
FairSpec ==
    /\ Spec
    /\ WF_vars(\E ap \in Top(stack) : \E f \in ExpandFailPoints(ap), trace \in BOOLEAN :
                  ExpandStep(ap, f, trace))
    /\ WF_vars(FoldStep)
    /\ WF_vars(BuildReturn)

\* C1: find terminates on every finite remote object graph, also one in which
\* an object lists itself or an ancestor among its children: the expansion
\* phase always reaches an empty work stack (or returns an error).
C1_ExpansionTerminates == (pc = "expand") ~> (pc # "expand")

\* C6: when the build succeeds and no node of the snapshot matches the query,
\* find returns Ok(None), never an error; it returns Ok(Some(..)) only when
\* some node of the snapshot matches.
C6_AbsenceIsOkNone ==
    (pc = "idle" /\ ret.op = "find" /\ tree # None) =>
        LET matching == {n \in NodesOf(tree[1]) : Answers(n, by)}
        IN  /\ matching = {} => (ret.status = "Ok" /\ ret.val = None)
            /\ (ret.status = "Ok" /\ ret.val # None) => matching # {}

\* find returned Ok(None) for a snapshot of several nodes.
C6_Witness ==
    /\ pc = "idle" /\ ret.op = "find" /\ tree # None
    /\ Len(tree[1].children) = 2
    /\ ret.status = "Ok" /\ ret.val = None

\* C9: every find call builds a new snapshot: whatever calls and remote
\* changes came before, a find that returns Ok returns what the query gives
\* on the remote graph as it is during that call.
C9_FindSeesTheRemoteAsItIs ==
    [][(pc = "search" /\ pc' = "idle" /\ ret'.status = "Ok")
          => ret' = FreshFind(by, session[1].root_proxy)]_vars

\* After an interaction and a change of the application, find returns the
\* display (A2), which had another name at the time of the earlier calls.
C9_Witness ==
    /\ pc = "idle" /\ ret.op = "find" /\ ret.status = "Ok"
    /\ by = Text(S_19)
    /\ ret.val = Some(A2)
    /\ triggered # << >>
    /\ changes > 0

\* C10: the live node find returns addresses the destination and path stored
\* in the matched snapshot node; no step of a find call changes the node the
\* test holds, and an interaction acts on the object the held node addresses.
C10_LiveNodeAddressesMatchedObject ==
    /\ [](( pc = "idle" /\ ret.op = "find" /\ ret.status = "Ok" /\ ret.val # None)
            => /\ found # None
               /\ ret.val[1].destination = found[1].destination
               /\ ret.val[1].path = found[1].path)
    /\ [][/\ (pc # "idle" \/ pc' # "idle") => held' = held
          /\ triggered' # triggered =>
                \E h \in held : \E i \in 0..Len(actions[h]) :
                    triggered' = Append(triggered, [obj |-> h, index |-> i])
         ]_vars

\* The test clicked the button A1 it found by text, after a later find by tag
\* (which cannot have returned A1: it has no accessible id).
C10_Witness ==
    /\ ret.op = "interact" /\ ret.status = "Ok"
    /\ ret.arg = Some(A1)
    /\ held = {A1}
    /\ triggered = << [obj |-> A1, index |-> 0] >>
    /\ by.kind = "Tag"

-----------------------------------------------------------------------------
(* get_text on a node found earlier *)

\* C11: get_text(node) returns the name the remote object has when get_text
\* is called (an error when the lookup fails then), whatever name the object
\* had when the snapshot in which the node was found was built.
C11_GetTextReturnsLiveName ==
    [][(pc = "idle" /\ pc' = "idle" /\ ret'.op = "get_text" /\ UNCHANGED remoteVars)
          => \E h \in held :
                /\ ret'.arg = Some(h)
                /\ IF name[h] = None THEN ret'.status = "Zbus"
                   ELSE ret'.status = "Ok" /\ ret'.val = name[h]
      ]_vars

\* The button A1 was found by its name "9", the application renamed it, and
\* get_text on the node answered "19".
C11_Witness ==
    /\ ret.op = "get_text" /\ ret.status = "Ok"
    /\ ret.arg = Some(A1)
    /\ by = Text(S_9)
    /\ ret.val = Some(S_19)
    /\ changes > 0

-----------------------------------------------------------------------------
(* The build specification: from_accessible_proxy on every small remote tree *)

\* An object of the remote trees lists at most this many children, and at
\* most this many objects report a child count beyond the guard.
MaxChildren == 2
MaxSkipped == 1

\* The root the builder is given and the other objects the remote tree is
\* made of (each is a child of one object at most).
BuildRoot == AppA
NonRoot == {A1, A2, B1, B2}
BuildObjs == {BuildRoot} \cup NonRoot
Absent == Ref("", "")

\* Position of an object in the order in which the trees are enumerated: an
\* object is the child of an earlier object only, so that the graph is a tree.
Position(o) ==
    IF o = AppA THEN 0 ELSE IF o = A1 THEN 1 ELSE IF o = A2 THEN 2
    ELSE IF o = B1 THEN 3 ELSE 4

\* The parent of every object that is not the root, or Absent.
ParentMaps ==
    {parent \in [NonRoot -> BuildObjs \cup {Absent}] :
        \A c \in NonRoot :
            parent[c] # Absent =>
                /\ Position(parent[c]) < Position(c)
                /\ parent[c] # BuildRoot => parent[parent[c]] # Absent}

\* The orders in which GetChildren may list the objects.
ChildOrders ==
    {ord \in [1..Cardinality(NonRoot) -> NonRoot] :
        \A i, j \in 1..Cardinality(NonRoot) : ord[i] = ord[j] => i = j}

\* What GetChildren returns for o in the tree given by parent and ord.
ChildrenIn(parent, ord, o) ==
    LET IsChild(c) == parent[c] = o
    IN  SelectSeq(ord, IsChild)

\* find on a session rooted at BuildRoot has just entered the builder; the
\* remote tree, and the objects reporting a huge child count, are arbitrary.
InitBuild ==
    /\ \E parent \in ParentMaps, ord \in ChildOrders :
          /\ \A o \in BuildObjs : Len(ChildrenIn(parent, ord, o)) <= MaxChildren
          /\ children = [o \in Obj |->
                           IF o \in BuildObjs THEN ChildrenIn(parent, ord, o)
                           ELSE << >>]
          /\ \E huge \in SUBSET BuildObjs :
                /\ Cardinality(huge) <= MaxSkipped
                /\ count = [o \in Obj |->
                              IF o \in huge THEN HugeChildCount + 1
                              ELSE IF o \in BuildObjs
                              THEN Len(ChildrenIn(parent, ord, o)) ELSE 0]
    /\ name = [o \in Obj |->
                 IF o = AppA THEN Some(S_calc)
                 ELSE IF o \in {A1, B1} THEN Some(S_9)
                 ELSE IF o = A2 THEN Some(<< >>)
                 ELSE None]
    /\ accId = [o \in Obj |-> IF o = A2 THEN Some(S_9) ELSE None]
    /\ role = [o \in Obj |-> IF o = AppA THEN "Application" ELSE "PushButton"]
    /\ ifaces = {A1}
    /\ actions = [o \in Obj |-> << >>]
    /\ session = Some([root_proxy |-> BuildRoot])
    /\ held = {}
    /\ ret = NoCall
    /\ pc = "expand"
    /\ by \in {Text(S_9), Tag(S_9)}
    /\ stack = << BuildRoot >>
    /\ nodes = << >>
    /\ fold_stack = << >>
    /\ tree = None
    /\ found = None
    /\ overflow = FALSE
    /\ triggered = << >>
    /\ changes = 0

NextBuild ==
    \/ \E ap \in Top(stack) : \E f \in ExpandFailPoints(ap), trace \in BOOLEAN :
          ExpandStep(ap, f, trace)
    \/ FoldStep
    \/ BuildReturn
    \/ \E built \in BOOLEAN : Search(built)

SpecBuild == InitBuild /\ [][NextBuild]_vars

RECURSIVE RemoteTree(_), ReachableFrom(_)

\* The remote tree under o, written as a snapshot: every object with its
\* details and, as children, the trees under the objects GetChildren lists.
RemoteTree(o) ==
    TreeNode(o.destination, o.path, accId[o], name[o], role[o],
             [i \in 1..Len(children[o]) |-> RemoteTree(children[o][i])])

\* The objects of the remote tree under o.
ReachableFrom(o) ==
    {o} \cup UNION {ReachableFrom(children[o][i]) : i \in 1..Len(children[o])}

\* The objects under the root that the child-count guard skips.
Skipped == {o \in ReachableFrom(BuildRoot) : count[o] > HugeChildCount}

\* C12: when every remote call succeeds and no object of the remote tree
\* reports more than 65536 children, the build returns the remote tree: every
\* node has exactly its remote children, in the order GetChildren listed them,
\* and the returned root was the only entry left on the fold stack.
C12_BuildReturnsTheRemoteTree ==
    (pc = "search" /\ Skipped = {}) =>
        /\ tree = Some(RemoteTree(BuildRoot))
        /\ fold_stack = << >>

\* A snapshot was built of a tree of depth two in which the root and one of
\* its children list two children each.
C12_Witness ==
    /\ pc = "search" /\ Skipped = {}
    /\ Len(children[BuildRoot]) = 2
    /\ \E c \in NonRoot : Len(children[c]) = 2
    /\ Len(tree[1].children) = 2

\* C13: an object that reports more than 65536 children is in the snapshot as
\* a childless node with its own details, wherever it is in the tree; when it
\* is the root, the build returns that childless node.
C13_SkippedObjectIsAChildlessNode ==
    /\ pc = "search" =>
          \A h \in Skipped : \E n \in NodesOf(tree[1]) : n = Placeholder(h)
    /\ (pc = "idle" /\ ret.op = "find" /\ ret.fail = "none") =>
          ~(ret.status = "Atspi" /\ BuildRoot \in Skipped)

RECURSIVE Enumerable(_)

\* The objects under o the builder expands: o unless the guard skips it, and
\* the objects it expands under the children of o.
Enumerable(o) ==
    IF count[o] > HugeChildCount THEN {}
    ELSE {o} \cup UNION {Enumerable(children[o][i]) : i \in 1..Len(children[o])}

\* Every edge of the snapshot t joins an object and one of the children
\* GetChildren lists for it.
EdgesAreRemote(t) ==
    \A n \in NodesOf(t) : \A i \in 1..Len(n.children) :
        NewProxy(n.children[i]) \in Range(children[NewProxy(n)])

\* C14: in the snapshot of a successful build, a node is attached only under
\* the node whose object listed it as a child, and no expanded object is
\* missing, also when the guard skipped some other object.
C14_EdgesAreRemoteEdges ==
    pc = "search" =>
        /\ EdgesAreRemote(tree[1])
        /\ \A o \in Enumerable(BuildRoot) :
              \E n \in NodesOf(tree[1]) : NewProxy(n) = o

\* C15: when the flat list is exhausted, the build returns a node exactly when
\* the fold stack is not empty; the fold stack then holds that node alone, and
\* it is the root the builder was given (the root proxy of the session); with
\* an empty fold stack the build fails with "No root node built".
C15_RootAloneOnTheFoldStack ==
    [][(pc = "fold" /\ nodes = << >> /\ ~overflow /\ pc' # "fold") =>
          IF fold_stack = << >>
          THEN pc' = "idle" /\ ret'.status = "Atspi" /\ ret'.fail = "none"
          ELSE /\ pc' = "search"
               /\ tree' # None
               /\ fold_stack = << tree'[1] >>
               /\ NewProxy(tree'[1]) = session[1].root_proxy
      ]_vars

\* A build in which the guard skipped an object returned the root, with its
\* children folded in.
C15_Witness ==
    /\ pc = "search"
    /\ Skipped # {}
    /\ NewProxy(tree[1]) = BuildRoot
    /\ tree[1].children # << >>

\* C16: a failed identifier or name lookup never fails the build: find does
\* not return the error of such a lookup, and in the snapshot every node has
\* the field absent exactly when the lookup on its object fails.
C16_FailedLookupIsAnAbsentField ==
    /\ (pc = "idle" /\ ret.op = "find" /\ ret.status # "Ok") =>
          ret.fail \notin {"name", "accessible_id"}
    /\ pc = "search" =>
          \A n \in NodesOf(tree[1]) :
              /\ n.name = name[NewProxy(n)]
              /\ n.accessible_id = accId[NewProxy(n)]

\* The call f names is made in the iteration on ap: child_count always, the
\* others when the guard does not skip ap.
CallIsMade(ap, f) == f.call = "child_count" \/ count[ap] <= HugeChildCount

\* C17: when a remote call of the build other than an identifier or name
\* lookup fails (child_count, get_children, into_accessible_proxy or get_role,
\* on the node of the step or on one of its children), the step ends find
\* with an error: no snapshot is returned and nothing is searched.
C17_FailedCallFailsFind ==
    [][\A ap \in Top(stack) : \A f \in ExpandFailPoints(ap) \ {NoFail} :
          \A trace \in BOOLEAN :
             (ExpandStep(ap, f, trace) /\ CallIsMade(ap, f)) =>
                /\ pc' = "idle"
                /\ ret'.op = "find" /\ ret'.status = "Atspi" /\ ret'.val = None
                /\ tree' = None /\ found' = None
      ]_vars

\* find returned the error of a failed get_role on a remote tree in which an
\* object lists two children; no snapshot was returned.
C17_Witness ==
    /\ pc = "idle" /\ ret.op = "find" /\ ret.status = "Atspi"
    /\ ret.fail = "get_role"
    /\ tree = None /\ found = None
    /\ \E o \in BuildObjs : Len(children[o]) = 2

-----------------------------------------------------------------------------
(* Failed remote calls of interact *)

\* C18: when get_interfaces fails on the target during interact, interact
\* returns that failure as an error of the propagated kind (the Zbus error of
\* the proxy call); it does not go on with a default capability set.
C18_CapabilityFailureIsSurfaced ==
    (ret.op = "interact" /\ ret.fail = "get_interfaces") => ret.status = "Zbus"

-----------------------------------------------------------------------------
(* from_accessible_proxy on child lists of any length                      *)
(* A Vec is written here as its runs, << [item, times], ... >>: times equal *)
(* consecutive elements, no two neighbouring runs with the same item. The   *)
(* loops are the loops of the source, one element per iteration; the runs   *)
(* make a list of 65537 children a value of one entry.                      *)

Run(x, k) == [item |-> x, times |-> k]

RECURSIVE RunLen(_), RunTakeLast(_, _), RunDropLast(_, _)

\* Vec::len
RunLen(s) == IF s = << >> THEN 0 ELSE RunLen(Front(s)) + Last(s).times

\* Vec::pop: the element is Last(s).item, the vector left is RunPop(s).
RunPop(s) ==
    IF Last(s).times = 1 THEN Front(s)
    ELSE [s EXCEPT ![Len(s)].times = @ - 1]

\* Vec::push
RunPush(s, x) ==
    IF s # << >> /\ Last(s).item = x
    THEN [s EXCEPT ![Len(s)].times = @ + 1]
    ELSE Append(s, Run(x, 1))

\* Vec::append
RunAppend(s, t) ==
    IF s # << >> /\ t # << >> /\ Last(s).item = t[1].item
    THEN Front(s) \o << Run(t[1].item, Last(s).times + t[1].times) >> \o Tail(t)
    ELSE s \o t

\* Vec::split_off(len - n): the last n elements of s, and what is left of s.
RunTakeLast(s, n) ==
    IF n = 0 \/ s = << >> THEN << >>
    ELSE IF Last(s).times >= n THEN << Run(Last(s).item, n) >>
    ELSE RunAppend(RunTakeLast(Front(s), n - Last(s).times), << Last(s) >>)

RunDropLast(s, n) ==
    IF n = 0 \/ s = << >> THEN s
    ELSE IF Last(s).times > n
    THEN Append(Front(s), Run(Last(s).item, Last(s).times - n))
    ELSE RunDropLast(Front(s), n - Last(s).times)

\* The TreeNode pushed on `nodes` for ap, its children the childless nodes of
\* the objects GetChildren listed.
ExpandedNodeRuns(ap) ==
    LET details == get_node_details(ap)
    IN  TreeNode(details.destination, details.path, details.accessible_id,
                 details.name, details.role,
                 [i \in 1..Len(children[ap]) |->
                     Run(Placeholder(children[ap][i].item), children[ap][i].times)])

\* One iteration of "while let Some(ap) = stack.pop()", every call succeeding.
ExpandOneRuns(st) ==
    LET ap == Last(st.stack).item
        rest == RunPop(st.stack)
    IN  IF count[ap] > HugeChildCount
        THEN [st EXCEPT !.stack = rest]
        ELSE [st EXCEPT !.stack = RunAppend(rest, children[ap]),
                        !.nodes = RunPush(st.nodes, ExpandedNodeRuns(ap))]

\* One iteration of "while let Some(mut node) = nodes.pop()".
FoldOneRuns(st) ==
    LET node == Last(st.nodes).item
        fs == st.fold_stack
        taken == IF RunLen(fs) >= RunLen(node.children)
                 THEN RunLen(node.children) ELSE RunLen(fs)
    IN  [st EXCEPT
           !.nodes = RunPop(st.nodes),
           !.fold_stack =
               IF node.children = << >> THEN RunPush(fs, node)
               ELSE RunPush(RunDropLast(fs, taken),
                            [node EXCEPT !.children = RunTakeLast(fs, taken)])]

RECURSIVE ExpandLoop(_, _), ExpandAll(_, _), FoldLoop(_, _), FoldAll(_, _)

\* The state of the expansion loop after at most n more iterations.
ExpandLoop(st, n) ==
    IF st.stack = << >> THEN st
    ELSE IF n = 1 THEN ExpandOneRuns(st)
    ELSE ExpandLoop(ExpandLoop(st, n \div 2), n - (n \div 2))

\* The expansion loop run until the stack is empty.
ExpandAll(st, n) ==
    IF st.stack = << >> THEN st ELSE ExpandAll(ExpandLoop(st, n), 2 * n)

\* The state of the folding loop after at most n more iterations.
FoldLoop(st, n) ==
    IF st.nodes = << >> THEN st
    ELSE IF n = 1 THEN FoldOneRuns(st)
    ELSE FoldLoop(FoldLoop(st, n \div 2), n - (n \div 2))

\* The folding loop run until `nodes` is empty.
FoldAll(st, n) ==
    IF st.nodes = << >> THEN st ELSE FoldAll(FoldLoop(st, n), 2 * n)

\* from_accessible_proxy(root): the fold stack when the flat list is exhausted.
BuildRuns(root) ==
    FoldAll(ExpandAll([stack |-> << Run(root, 1) >>, nodes |-> << >>,
                       fold_stack |-> << >>], 1), 1).fold_stack

\* The child lists GetChildren may return, as runs, for the root, for its
\* child A1 and for its child A2; the longest, of the root, has
\* HugeChildCount + 1 entries, all of them the leaf B2.
RootLists ==
    {<< >>, << Run(A1, 1) >>, << Run(A1, 1), Run(A2, 1) >>,
     << Run(A2, 1), Run(A1, 1) >>, << Run(A1, 2) >>,
     << Run(B2, HugeChildCount + 1) >>}
A1Lists ==
    {<< >>, << Run(B1, 1) >>, << Run(B1, 1), Run(B2, 1) >>, << Run(B2, 2) >>}
A2Lists == {<< >>, << Run(B2, 1) >>}

\* What ChildCount may report for an object whose GetChildren returns n
\* children: the two are separate calls and need not agree.
ReportedCounts(n) == {n, 1, HugeChildCount + 1}

\* The root lists o among its children.
ListedIn(r, o) == \E i \in 1..Len(r) : r[i].item = o

\* build_tree has been called on a session rooted at BuildRoot. An object the
\* root does not list has no children.
InitRuns ==
    /\ \E r \in RootLists :
       \E a \in IF ListedIn(r, A1) THEN A1Lists ELSE {<< >>},
          b \in IF ListedIn(r, A2) THEN A2Lists ELSE {<< >>} :
          /\ children = [o \in Obj |->
                           IF o = BuildRoot THEN r ELSE IF o = A1 THEN a
                           ELSE IF o = A2 THEN b ELSE << >>]
          /\ \E cr \in ReportedCounts(RunLen(r)),
                ca \in IF ListedIn(r, A1) THEN ReportedCounts(RunLen(a)) ELSE {0} :
                count = [o \in Obj |->
                           IF o = BuildRoot THEN cr ELSE IF o = A1 THEN ca
                           ELSE IF o = A2 THEN RunLen(b) ELSE 0]
    /\ name = [o \in Obj |->
                 IF o = AppA THEN Some(S_calc)
                 ELSE IF o \in {A1, B1} THEN Some(S_9)
                 ELSE IF o = A2 THEN Some(<< >>)
                 ELSE None]
    /\ accId = [o \in Obj |-> IF o = A2 THEN Some(S_9) ELSE None]
    /\ role = [o \in Obj |-> IF o = AppA THEN "Application" ELSE "PushButton"]
    /\ ifaces = {A1}
    /\ actions = [o \in Obj |-> << >>]
    /\ session = Some([root_proxy |-> BuildRoot])
    /\ held = {}
    /\ ret = NoCall
    /\ pc = "expand"
    /\ by = Text(S_9)
    /\ stack = << BuildRoot >>
    /\ nodes = << >>
    /\ fold_stack = << >>
    /\ tree = None
    /\ found = None
    /\ overflow = FALSE
    /\ triggered = << >>
    /\ changes = 0

\* build_tree: from_accessible_proxy(self.root_proxy.clone()) run to its end,
\* every remote call succeeding.
BuildTreeRuns ==
    /\ pc = "expand"
    /\ stack = << session[1].root_proxy >>
    /\ LET fs == BuildRuns(session[1].root_proxy)
       IN  IF fs = << >>
           THEN /\ FindFails("Atspi", "none")
           ELSE /\ tree' = Some(Last(fs).item)
                /\ pc' = "search"
                /\ stack' = << >>
                /\ UNCHANGED << ret, nodes, fold_stack, found, overflow >>
    /\ UNCHANGED << remoteVars, triggered, session, held, by, changes >>

NextRuns == BuildTreeRuns

SpecRuns == InitRuns /\ [][NextRuns]_vars

\* The set of the nodes of a snapshot whose child lists are written as runs.
RECURSIVE NodesOfRuns(_)
NodesOfRuns(t) ==
    {t} \cup UNION {NodesOfRuns(t.children[i].item) : i \in 1..Len(t.children)}

\* C19: every node of a snapshot the build returns has at most 65536
\* children, also when ChildCount reported at most 65536 for an object whose
\* GetChildren then returned more.
C19_AtMostHugeChildCountChildren ==
    pc = "search" =>
        \A n \in NodesOfRuns(tree[1]) : RunLen(n.children) <= HugeChildCount

====
